---- MODULE Spec2Model ----
(***************************************************************************)
(* Checkmate: the facility-assignment and session-state simulation.        *)
(*                                                                         *)
(* The program is single threaded; every handler below is one atomic       *)
(* callback of the browser's event loop.  Time is kept as clocks relative  *)
(* to the instant a timestamp was taken: where the source stores           *)
(* t0 = Date.now() and later reads Date.now() - t0, the model stores the   *)
(* elapsed time and AdvanceTime lets it grow.  A clock saturates at the    *)
(* only threshold the source ever compares it with.                        *)
(***************************************************************************)
EXTENDS Integers, Sequences, FiniteSets, TLC

(* ---- program constants --------------------------------------------- *)
AdjacencyDelay == 500
UrinalUsageTime == 4000
CubicleUsageTime == 10000
MaleWaitTime == 12000
InitialSpawnRate == 2000
MinSpawnRate == 800
SpawnRateDecrease == 150
EngineResetSpawnRate == 2000
SpawnerResetSpawnRate == 3000
SpawnerMinSpawnRate == 1000
StartLives == 3
DifficultyIncreaseScore == 10
OutOfOrderStartDifficulty == 2
OutOfOrderIntervalMs == 15000
LifeRewardIntervalMs == 10000
MaxOutOfOrderFacilities == 2
MaxSelectableDifficulty == 10
RestoreTimeMin == 20000
RestoreTimeSpread == 20000

(* ---- bounds of the model ------------------------------------------- *)
\* number of urinals and cubicles of the pool (the shipped configuration
\* has 5 and 2; the constructor takes any counts)
UrinalCount == 3
CubicleCount == 1
\* a session with pauses and returns to the menu is followed until the
\* spawner would hand out a larger id
MaxMaleId == 2
\* males the spawner hands out in a run of uninterrupted sessions
PlayMaxMales == 5
\* lives are followed up to this value (gainLife is unbounded above)
MaxLives == 4
\* session controls (start, play again, title, pause/resume key, R key)
\* handled in a run with pauses and returns to the menu
MaxControls == 3
\* session controls handled in a run of uninterrupted sessions
PlayMaxControls == 2
\* males spawned in the session of a player who makes no violation
ScoreMaxMales == 11
\* males spawned in a session of a player who never clicks a facility
OutageMaxMales == 1
\* session controls handled in a run of such a player
OutageMaxControls == 5
\* males of the one session that is lost after a return to the menu
MenuMaxMales == 4
\* session controls of that session and of the one that follows it
MenuMaxControls == 3
\* males of a session that is lost by timeouts alone
LifecycleMaxMales == 3
\* session controls of a run through the ways a session begins and ends
LifecycleMaxControls == 4
\* males of a session followed up to the first release of a cubicle
SweepMaxMales == 4
\* males of a session that is paused with a urinal in use
OrderMaxMales == 4
\* its session controls: the start, a pause and the resume
OrderMaxControls == 3
\* males of two sessions lost to adjacency penalties
StorageMaxMales == 8
\* males of one of these sessions
StorageSessionMales == 4
\* their session controls: the start and the restart
StorageMaxControls == 2
\* males of a session that is left alone until it is lost
LiveMaxMales == 12
\* males the player of that session serves
LiveClickMales == 2
\* difficulties for which the step of updateDifficulty is computed
MaxDifficulty == 12
\* the difficulty selector is followed up to this value
MaxStartDifficulty == 3

Null == -1
NoMale == 0

UrinalIdx == 0 .. (UrinalCount - 1)
CubicleIdx == 0 .. (CubicleCount - 1)

Min(a, b) == IF a <= b THEN a ELSE b
Max(a, b) == IF a >= b THEN a ELSE b

SetMin(S) == CHOOSE x \in S : \A y \in S : x <= y

VARIABLES
    state,              \* GameEngine.state
    isRunning,          \* GameEngine.isRunning
    sinceFrame,         \* performance.now() - GameEngine.lastFrameTime
    urinals,            \* FacilityManager.urinals
    cubicles,           \* FacilityManager.cubicles
    maleSpawner,        \* MaleSpawner fields
    storage,            \* value kept by the StorageManager
    storageAvailable,   \* StorageManager.storageAvailable
    adjacencyTimeouts,  \* pending setTimeout(loseLife('adjacency'), 500)
    restoreTimeouts,    \* pending setTimeout(restoreFacility, restoreTime)
    outOfOrderInterval, \* main.js outOfOrderInterval: Null or time to next tick
    lifeRewardInterval, \* main.js lifeRewardInterval: Null or time to next tick
    outOfOrderTimers,   \* live timers made by setInterval in startOutOfOrderSystem
    lifeRewardTimers,   \* live timers made by setInterval in startLifeRewardSystem
    selectedDifficulty, \* main.js selectedDifficulty
    maxMaleId,          \* largest id the spawner may hand out in a session
    malesLeft,          \* males the spawner may still hand out in this run
    controlsLeft        \* session controls that may still be handled

vars == <<state, isRunning, sinceFrame, urinals, cubicles, maleSpawner, storage,
          storageAvailable, adjacencyTimeouts, restoreTimeouts, outOfOrderInterval,
          lifeRewardInterval, outOfOrderTimers, lifeRewardTimers,
          selectedDifficulty, maxMaleId, malesLeft, controlsLeft>>

(* ---- Facility ------------------------------------------------------- *)
\* new Facility(type, index); occupiedFor is Date.now() - occupiedSince,
\* Null while occupiedSince is null
NewFacility ==
    [occupied |-> FALSE, occupiedBy |-> NoMale, occupiedFor |-> Null,
     outOfOrder |-> FALSE, hasLifeReward |-> FALSE]

usageDuration(type) == IF type = "urinal" THEN UrinalUsageTime ELSE CubicleUsageTime

isAvailable(f) == ~f.occupied /\ ~f.outOfOrder

\* Facility.assign, reached only past the isAvailable check of its callers
assign(f, maleId) ==
    [f EXCEPT !.occupied = TRUE, !.occupiedBy = maleId, !.occupiedFor = 0]

release(f) ==
    [f EXCEPT !.occupied = FALSE, !.occupiedBy = NoMale, !.occupiedFor = Null]

\* isReadyForRelease asking for more than the usage duration
isReadyForReleaseStrict(f, type) ==
    IF ~f.occupied \/ f.occupiedFor = Null
    THEN FALSE
    ELSE f.occupiedFor > usageDuration(type)

isReadyForRelease(f, type) ==
    IF ~f.occupied \/ f.occupiedFor = Null
    THEN FALSE
    ELSE f.occupiedFor >= usageDuration(type)

\* setOutOfOrder leaving an occupied facility occupied
setOutOfOrderKeepsOccupant(f, flag) == [f EXCEPT !.outOfOrder = flag]

setOutOfOrder(f, flag) ==
    LET g == [f EXCEPT !.outOfOrder = flag]
    IN  IF flag /\ g.occupied THEN release(g) ELSE g

(* ---- Male ----------------------------------------------------------- *)
\* new Male(id) with maxWaitTime = defaultWaitTime; waited is
\* Date.now() - spawnTime
NewMale ==
    [state |-> "waiting", waited |-> 0, maxWaitTime |-> MaleWaitTime,
     facilityType |-> "none", assignedFacility |-> Null]

\* getTimeRemaining that goes on counting after the assignment
getTimeRemainingAnyState(m) == Max(0, m.maxWaitTime - m.waited)

getTimeRemaining(m) ==
    IF m.state # "waiting" THEN m.maxWaitTime
    ELSE Max(0, m.maxWaitTime - m.waited)

hasTimedOut(m) == m.state = "waiting" /\ getTimeRemaining(m) = 0

\* Male.assignToFacility followed by Male.startUsing (MaleSpawner.assignMale)
assignToFacility(m, facilityType, facilityIndex) ==
    [m EXCEPT !.state = "assigned", !.facilityType = facilityType,
              !.assignedFacility = facilityIndex]

startUsing(m) == [m EXCEPT !.state = "using"]

(* ---- the whole program state as one record -------------------------- *)
World ==
    [state |-> state, isRunning |-> isRunning, sinceFrame |-> sinceFrame,
     urinals |-> urinals, cubicles |-> cubicles, maleSpawner |-> maleSpawner,
     storage |-> storage, storageAvailable |-> storageAvailable,
     adjacencyTimeouts |-> adjacencyTimeouts,
     restoreTimeouts |-> restoreTimeouts,
     outOfOrderInterval |-> outOfOrderInterval,
     lifeRewardInterval |-> lifeRewardInterval,
     outOfOrderTimers |-> outOfOrderTimers,
     lifeRewardTimers |-> lifeRewardTimers,
     selectedDifficulty |-> selectedDifficulty, malesLeft |-> malesLeft]

Commit(w) ==
    /\ state' = w.state
    /\ isRunning' = w.isRunning
    /\ sinceFrame' = w.sinceFrame
    /\ urinals' = w.urinals
    /\ cubicles' = w.cubicles
    /\ maleSpawner' = w.maleSpawner
    /\ storage' = w.storage
    /\ storageAvailable' = w.storageAvailable
    /\ adjacencyTimeouts' = w.adjacencyTimeouts
    /\ restoreTimeouts' = w.restoreTimeouts
    /\ outOfOrderInterval' = w.outOfOrderInterval
    /\ lifeRewardInterval' = w.lifeRewardInterval
    /\ outOfOrderTimers' = w.outOfOrderTimers
    /\ lifeRewardTimers' = w.lifeRewardTimers
    /\ selectedDifficulty' = w.selectedDifficulty
    /\ malesLeft' = w.malesLeft

(* ---- StorageManager -------------------------------------------------- *)
\* StorageManager.getHighScore: the stored value, 0 when nothing is stored
\* or nothing can be read (safeLocalStorageOperation returns null)
getHighScore(w) ==
    LET stored == IF ~w.storageAvailable THEN Null ELSE w.storage
    IN  IF stored = Null THEN 0 ELSE stored

\* StorageManager.setHighScore: nothing is written without storage
setHighScore(w, score) ==
    IF ~w.storageAvailable THEN w ELSE [w EXCEPT !.storage = score]

(* ---- GameEngine: lives, score, difficulty --------------------------- *)
checkAndUpdateHighScore(w) ==
    LET previousHighScore == getHighScore(w)
    IN  IF w.state.score > previousHighScore /\ w.state.score > 0
        THEN setHighScore([w EXCEPT !.state.highScore = w.state.score,
                                    !.state.isNewHighScore = TRUE],
                          w.state.score)
        ELSE [w EXCEPT !.state.isNewHighScore = FALSE,
                       !.state.highScore = previousHighScore]

endGame(w, reason) ==
    checkAndUpdateHighScore(
        [w EXCEPT !.state.status = "gameOver",
                  !.state.gameOverReason = reason,
                  !.isRunning = FALSE])

\* loseLife ending the game while one life is left
loseLifeEndsAtOne(w, reason) ==
    LET w1 == [w EXCEPT !.state.lives = @ - 1]
    IN  IF w1.state.lives <= 1 THEN endGame(w1, reason) ELSE w1

loseLife(w, reason) ==
    LET w1 == [w EXCEPT !.state.lives = @ - 1]
    IN  IF w1.state.lives <= 0 THEN endGame(w1, reason) ELSE w1

gainLife(w) == [w EXCEPT !.state.lives = @ + 1]

\* MaleSpawner.updateSpawnRate
updateSpawnRate(w, newRate) ==
    [w EXCEPT !.maleSpawner.spawnRate = Max(SpawnerMinSpawnRate, newRate)]

\* updateDifficulty raising the difficulty and leaving the spawn rate
updateDifficultyKeepsRate(w) == [w EXCEPT !.state.difficulty = @ + 1]

updateDifficulty(w) ==
    LET rate == Max(MinSpawnRate, w.state.spawnRate - SpawnRateDecrease)
    IN  updateSpawnRate([w EXCEPT !.state.difficulty = @ + 1,
                                  !.state.spawnRate = rate],
                        rate)

\* the audio collaborator main.js injects into the engine
audioManagerPresent == TRUE

\* incrementScore of an engine whose audioManager is set (TRUE) or null
incrementScoreWith(w, audioManager) ==
    LET w1 == [w EXCEPT !.state.score = @ + 1]
    IN  IF w1.state.score % DifficultyIncreaseScore = 0 /\ audioManager
        THEN updateDifficulty(w1)
        ELSE w1

\* incrementScore raising the difficulty with every point
incrementScoreEveryPoint(w) == updateDifficulty([w EXCEPT !.state.score = @ + 1])

incrementScore(w) == incrementScoreWith(w, audioManagerPresent)

(* ---- MaleSpawner ----------------------------------------------------- *)
\* spawnMale taking the lowest id that is not in the Map
spawnMaleReusesId(w) ==
    LET id == SetMin((1..(w.maleSpawner.nextMaleId)) \ DOMAIN w.maleSpawner.males)
    IN  [w EXCEPT !.maleSpawner.males =
                       [i \in (DOMAIN @) \cup {id} |->
                           IF i = id THEN NewMale ELSE @[i]],
                  !.maleSpawner.nextMaleId = Max(@, id + 1),
                  !.malesLeft = @ - 1]

\* Map.set of a new Male under the next id
spawnMale(w) ==
    LET id == w.maleSpawner.nextMaleId
    IN  [w EXCEPT !.maleSpawner.males =
                       [i \in (DOMAIN @) \cup {id} |->
                           IF i = id THEN NewMale ELSE @[i]],
                  !.maleSpawner.nextMaleId = id + 1,
                  !.malesLeft = @ - 1]

\* removeMale that leaves the male in the Map
removeMaleKeepsMale(w, maleId) == w

\* Map.delete; deleting an id that is not in the map changes nothing
removeMale(w, maleId) ==
    [w EXCEPT !.maleSpawner.males =
                  [i \in (DOMAIN @) \ {maleId} |-> @[i]]]

\* getMalesInQueue: the waiting males in the Map's (insertion = id) order
getMalesInQueue(w) ==
    {i \in DOMAIN w.maleSpawner.males : w.maleSpawner.males[i].state = "waiting"}

\* assignMale that does not record the facility
assignMaleForgetsFacility(w, maleId, facilityType, facilityIndex) ==
    [w EXCEPT !.maleSpawner.males[maleId] = startUsing(@)]

\* MaleSpawner.assignMale on a waiting male
assignMale(w, maleId, facilityType, facilityIndex) ==
    [w EXCEPT !.maleSpawner.males[maleId] =
                  startUsing(assignToFacility(@, facilityType, facilityIndex))]

\* checkForTimeout that finds no male
checkForTimeoutNever(w) == NoMale

\* MaleSpawner.checkForTimeout: first male in Map order that has timed out
checkForTimeout(w) ==
    LET out == {i \in DOMAIN w.maleSpawner.males :
                    hasTimedOut(w.maleSpawner.males[i])}
    IN  IF out = {} THEN NoMale ELSE SetMin(out)

\* MaleSpawner.update(deltaTime)
spawnerUpdate(w, deltaTime) ==
    LET t == w.maleSpawner.timeSinceLastSpawn + deltaTime
    IN  IF t >= w.maleSpawner.spawnRate
        THEN [spawnMale(w) EXCEPT !.maleSpawner.timeSinceLastSpawn = 0]
        ELSE [w EXCEPT !.maleSpawner.timeSinceLastSpawn = t]

\* MaleSpawner.reset clearing the males but going on with the id counter
spawnerResetKeepsIds(w) ==
    [w EXCEPT !.maleSpawner =
        [males |-> <<>>, nextMaleId |-> w.maleSpawner.nextMaleId,
         timeSinceLastSpawn |-> 0, spawnRate |-> SpawnerResetSpawnRate]]

spawnerReset(w) ==
    [w EXCEPT !.maleSpawner =
        [males |-> <<>>, nextMaleId |-> 1, timeSinceLastSpawn |-> 0,
         spawnRate |-> SpawnerResetSpawnRate]]

(* ---- FacilityManager ------------------------------------------------- *)
\* the two throwing checks at the head of assignMaleToUrinal: the index is
\* out of range or the urinal is not available
assignMaleToUrinalThrows(w, urinalIndex) ==
    \/ urinalIndex < 0
    \/ urinalIndex >= UrinalCount
    \/ ~isAvailable(w.urinals[urinalIndex])

\* isUrinalAdjacent looking at the left neighbour only
isUrinalAdjacentLeftOnly(w, index) ==
    index > 0 /\ w.urinals[index - 1].occupied

isUrinalAdjacent(w, index) ==
    \/ index > 0 /\ w.urinals[index - 1].occupied
    \/ index < UrinalCount - 1 /\ w.urinals[index + 1].occupied

\* assignMaleToUrinal calling loseLife at once instead of after the delay
assignMaleToUrinalAtOnce(w, maleId, urinalIndex) ==
    LET w1 == IF w.urinals[urinalIndex].hasLifeReward
              THEN [gainLife(w) EXCEPT !.urinals[urinalIndex].hasLifeReward = FALSE]
              ELSE w
        w2 == [w1 EXCEPT !.urinals[urinalIndex] = assign(@, maleId)]
    IN  IF isUrinalAdjacent(w2, urinalIndex)
        THEN loseLife(w2, "adjacency")
        ELSE w2

\* the body of assignMaleToUrinal past its two throwing checks
assignMaleToUrinal(w, maleId, urinalIndex) ==
    LET w1 == IF w.urinals[urinalIndex].hasLifeReward
              THEN [gainLife(w) EXCEPT !.urinals[urinalIndex].hasLifeReward = FALSE]
              ELSE w
        w2 == [w1 EXCEPT !.urinals[urinalIndex] = assign(@, maleId)]
    IN  IF isUrinalAdjacent(w2, urinalIndex)
        THEN [w2 EXCEPT !.adjacencyTimeouts = Append(@, AdjacencyDelay)]
        ELSE w2

\* assignMaleToCubicle granting the life and leaving the reward in place
assignMaleToCubicleKeepsReward(w, maleId, cubicleIndex) ==
    LET w1 == IF w.cubicles[cubicleIndex].hasLifeReward THEN gainLife(w) ELSE w
    IN  [w1 EXCEPT !.cubicles[cubicleIndex] = assign(@, maleId)]

\* the body of assignMaleToCubicle past its two throwing checks
assignMaleToCubicle(w, maleId, cubicleIndex) ==
    LET w1 == IF w.cubicles[cubicleIndex].hasLifeReward
              THEN [gainLife(w) EXCEPT !.cubicles[cubicleIndex].hasLifeReward = FALSE]
              ELSE w
    IN  [w1 EXCEPT !.cubicles[cubicleIndex] = assign(@, maleId)]

\* FacilityManager.update, the urinal forEach from index i on
RECURSIVE updateUrinals(_, _)
updateUrinals(w, i) ==
    IF i >= UrinalCount THEN w
    ELSE IF isReadyForRelease(w.urinals[i], "urinal")
         THEN LET maleId == w.urinals[i].occupiedBy
                  w1 == [w EXCEPT !.urinals[i] = release(@)]
              IN  updateUrinals(incrementScore(removeMale(w1, maleId)), i + 1)
         ELSE updateUrinals(w, i + 1)

\* FacilityManager.update, the cubicle forEach from index i on
RECURSIVE updateCubicles(_, _)
updateCubicles(w, i) ==
    IF i >= CubicleCount THEN w
    ELSE IF isReadyForRelease(w.cubicles[i], "cubicle")
         THEN LET maleId == w.cubicles[i].occupiedBy
                  w1 == [w EXCEPT !.cubicles[i] = release(@)]
              IN  updateCubicles(removeMale(w1, maleId), i + 1)
         ELSE updateCubicles(w, i + 1)

\* FacilityManager.update counting a point for a released cubicle too
facilityUpdateScoresCubicles(w) ==
    LET ready == {i \in CubicleIdx : isReadyForRelease(w.cubicles[i], "cubicle")}
    IN  [updateCubicles(updateUrinals(w, 0), 0)
            EXCEPT !.state.score = @ + Cardinality(ready)]

facilityUpdate(w) == updateCubicles(updateUrinals(w, 0), 0)

\* setFacilityOutOfOrder flipping the flag instead of setting it
setFacilityOutOfOrderToggles(w, type, index) ==
    IF type = "urinal"
    THEN [w EXCEPT !.urinals[index] = setOutOfOrder(@, ~@.outOfOrder)]
    ELSE [w EXCEPT !.cubicles[index] = setOutOfOrder(@, ~@.outOfOrder)]

setFacilityOutOfOrder(w, type, index) ==
    IF type = "urinal"
    THEN [w EXCEPT !.urinals[index] = setOutOfOrder(@, TRUE)]
    ELSE [w EXCEPT !.cubicles[index] = setOutOfOrder(@, TRUE)]

\* restoreFacility acting only while the session is playing
restoreFacilityWhilePlaying(w, type, index) ==
    IF w.state.status # "playing" THEN w
    ELSE IF type = "urinal"
    THEN [w EXCEPT !.urinals[index] = setOutOfOrder(@, FALSE)]
    ELSE [w EXCEPT !.cubicles[index] = setOutOfOrder(@, FALSE)]

restoreFacility(w, type, index) ==
    IF type = "urinal"
    THEN [w EXCEPT !.urinals[index] = setOutOfOrder(@, FALSE)]
    ELSE [w EXCEPT !.cubicles[index] = setOutOfOrder(@, FALSE)]

\* FacilityManager.reset
facilityReset(w) ==
    [w EXCEPT !.urinals = [i \in UrinalIdx |-> setOutOfOrder(release(@[i]), FALSE)],
              !.cubicles = [i \in CubicleIdx |-> setOutOfOrder(release(@[i]), FALSE)]]

(* ---- GameEngine: session -------------------------------------------- *)
\* GameEngine.reset
reset(w) ==
    spawnerReset(facilityReset(
        [w EXCEPT !.state.score = 0,
                  !.state.isNewHighScore = FALSE,
                  !.state.difficulty = 1,
                  !.state.lives = StartLives,
                  !.state.gameOverReason = "none",
                  !.state.spawnRate = EngineResetSpawnRate]))

\* checkGameOver going on to a second male that has timed out
checkGameOverTwoAtOnce(w) ==
    LET out == {i \in DOMAIN w.maleSpawner.males :
                    hasTimedOut(w.maleSpawner.males[i])}
        lose(v, i) == removeMale(loseLife(v, "timeout"), i)
    IN  IF out = {} THEN w
        ELSE IF Cardinality(out) = 1 THEN lose(w, SetMin(out))
        ELSE lose(lose(w, SetMin(out)), SetMin(out \ {SetMin(out)}))

checkGameOver(w) ==
    IF DOMAIN w.maleSpawner.males # {}
    THEN LET timedOutMale == checkForTimeout(w)
         IN  IF timedOutMale # NoMale
             THEN removeMale(loseLife(w, "timeout"), timedOutMale)
             ELSE w
    ELSE w

\* GameEngine.update(deltaTime)
update(w, deltaTime) ==
    IF w.state.status # "playing" THEN w
    ELSE checkGameOver(facilityUpdate(spawnerUpdate(w, deltaTime)))

\* GameEngine.gameLoop: one frame; lastFrameTime = currentTime
gameLoop(w) ==
    IF ~w.isRunning THEN w
    ELSE update([w EXCEPT !.sinceFrame = 0], w.sinceFrame)

start(w) ==
    LET w1 == IF w.state.status \in {"menu", "gameOver"} THEN reset(w) ELSE w
        w2 == [w1 EXCEPT !.state.status = "playing",
                         !.isRunning = TRUE,
                         !.sinceFrame = 0]
    IN  gameLoop(spawnMale(w2))

\* pause clearing the pending adjacency penalties
pauseCancelsPenalties(w) ==
    IF w.state.status = "playing"
    THEN [w EXCEPT !.state.status = "paused", !.isRunning = FALSE,
                   !.adjacencyTimeouts = <<>>]
    ELSE w

pause(w) ==
    IF w.state.status = "playing"
    THEN [w EXCEPT !.state.status = "paused", !.isRunning = FALSE]
    ELSE w

resume(w) ==
    IF w.state.status = "paused"
    THEN gameLoop([w EXCEPT !.state.status = "playing",
                            !.isRunning = TRUE,
                            !.sinceFrame = 0])
    ELSE w

(* ---- main.js: disruption systems ------------------------------------ *)
\* values of Math.random(), in percent, the model draws from
RandomPct == {0, 50}

\* Math.min(0.5, (difficulty - 2) * 0.15), in percent
outOfOrderChance(difficulty) == Min(50, (difficulty - 2) * 15)

\* chance of the reward interval (Math.random() < 0.2), in percent
LifeRewardChance == 20

\* `weight` copies of entry e
Copies(e, weight) == [k \in 1 .. weight |-> e]

\* getWeightedOutOfOrderFacility: the urinal part of the list, from index i on
RECURSIVE weightedOutOfOrderUrinals(_, _)
weightedOutOfOrderUrinals(w, i) ==
    IF i >= UrinalCount THEN <<>>
    ELSE LET u == w.urinals[i]
             isEven == (i + 1) % 2 = 0
             weight == IF w.state.difficulty <= 5
                       THEN (IF isEven THEN 3 ELSE 1)
                       ELSE (IF isEven THEN 1 ELSE 3)
             here == IF u.outOfOrder \/ u.occupied THEN <<>>
                     ELSE Copies([type |-> "urinal", index |-> i], weight)
         IN  here \o weightedOutOfOrderUrinals(w, i + 1)

RECURSIVE weightedOutOfOrderCubicles(_, _)
weightedOutOfOrderCubicles(w, i) ==
    IF i >= CubicleCount THEN <<>>
    ELSE LET c == w.cubicles[i]
             here == IF c.outOfOrder \/ c.occupied THEN <<>>
                     ELSE Copies([type |-> "cubicle", index |-> i], 2)
         IN  here \o weightedOutOfOrderCubicles(w, i + 1)

\* getWeightedOutOfOrderFacility drawing among the urinals only
getWeightedOutOfOrderFacilityUrinalsOnly(w) == weightedOutOfOrderUrinals(w, 0)

\* the list getWeightedOutOfOrderFacility draws from
getWeightedOutOfOrderFacility(w) ==
    weightedOutOfOrderUrinals(w, 0) \o weightedOutOfOrderCubicles(w, 0)

\* number of facilities that are out of order
currentOutOfOrder(w) ==
    Cardinality({i \in UrinalIdx : w.urinals[i].outOfOrder})
    + Cardinality({i \in CubicleIdx : w.cubicles[i].outOfOrder})

\* addRandomOutOfOrderFacility without the check of the cap
addRandomOutOfOrderFacilityNoCap(w, pick, restorePct) ==
    LET weighted == getWeightedOutOfOrderFacility(w)
    IN  IF Len(weighted) = 0 THEN w
        ELSE LET facility == weighted[pick]
                 restoreTime == RestoreTimeMin + (restorePct * RestoreTimeSpread) \div 100
             IN  [setFacilityOutOfOrder(w, facility.type, facility.index)
                    EXCEPT !.restoreTimeouts =
                        Append(@, [type |-> facility.type, index |-> facility.index,
                                   remaining |-> restoreTime])]

\* addRandomOutOfOrderFacility; pick is the index drawn in the weighted list
\* and restorePct the draw of the restore time
addRandomOutOfOrderFacility(w, pick, restorePct) ==
    LET weighted == getWeightedOutOfOrderFacility(w)
    IN  IF currentOutOfOrder(w) >= MaxOutOfOrderFacilities THEN w
        ELSE IF Len(weighted) = 0 THEN w
        ELSE LET facility == weighted[pick]
                 restoreTime == RestoreTimeMin + (restorePct * RestoreTimeSpread) \div 100
             IN  [setFacilityOutOfOrder(w, facility.type, facility.index)
                    EXCEPT !.restoreTimeouts =
                        Append(@, [type |-> facility.type, index |-> facility.index,
                                   remaining |-> restoreTime])]

\* the callback of the outOfOrderInterval without its test of the status
outOfOrderCallbackAnyStatus(w, r, pick, restorePct) ==
    IF w.state.difficulty < OutOfOrderStartDifficulty THEN w
    ELSE IF r < outOfOrderChance(w.state.difficulty)
         THEN addRandomOutOfOrderFacility(w, pick, restorePct)
         ELSE w

\* the callback of the outOfOrderInterval; r is its Math.random() draw
outOfOrderCallback(w, r, pick, restorePct) ==
    IF w.state.status # "playing" THEN w
    ELSE IF w.state.difficulty < OutOfOrderStartDifficulty THEN w
    ELSE IF r < outOfOrderChance(w.state.difficulty)
         THEN addRandomOutOfOrderFacility(w, pick, restorePct)
         ELSE w

\* addLifeReward: the urinal part of the weighted list, from index i on
RECURSIVE weightedRewardUrinals(_, _)
weightedRewardUrinals(w, i) ==
    IF i >= UrinalCount THEN <<>>
    ELSE LET u == w.urinals[i]
             isEven == (i + 1) % 2 = 0
             here == IF u.outOfOrder \/ u.hasLifeReward THEN <<>>
                     ELSE Copies([type |-> "urinal", index |-> i],
                                 IF isEven THEN 3 ELSE 1)
         IN  here \o weightedRewardUrinals(w, i + 1)

RECURSIVE weightedRewardCubicles(_, _)
weightedRewardCubicles(w, i) ==
    IF i >= CubicleCount THEN <<>>
    ELSE LET c == w.cubicles[i]
             here == IF c.outOfOrder \/ c.hasLifeReward THEN <<>>
                     ELSE Copies([type |-> "cubicle", index |-> i], 3)
         IN  here \o weightedRewardCubicles(w, i + 1)

weightedReward(w) == weightedRewardUrinals(w, 0) \o weightedRewardCubicles(w, 0)

addLifeReward(w, pick) ==
    LET weighted == weightedReward(w)
    IN  IF Len(weighted) = 0 THEN w
        ELSE LET selected == weighted[pick]
             IN  IF selected.type = "urinal"
                 THEN [w EXCEPT !.urinals[selected.index].hasLifeReward = TRUE]
                 ELSE [w EXCEPT !.cubicles[selected.index].hasLifeReward = TRUE]

\* the callback of the lifeRewardInterval
lifeRewardCallback(w, r, pick) ==
    IF w.state.status # "playing" THEN w
    ELSE IF r < LifeRewardChance THEN addLifeReward(w, pick)
    ELSE w

\* startOutOfOrderSystem making a new timer although one is running
startOutOfOrderSystemAgain(w) ==
    [w EXCEPT !.outOfOrderInterval = OutOfOrderIntervalMs,
              !.outOfOrderTimers = @ + 1]

\* setInterval makes a timer and the variable keeps its handle
startOutOfOrderSystem(w) ==
    IF w.outOfOrderInterval # Null THEN w
    ELSE [w EXCEPT !.outOfOrderInterval = OutOfOrderIntervalMs,
                   !.outOfOrderTimers = @ + 1]

\* clearInterval ends the timer the handle names
stopOutOfOrderSystem(w) ==
    IF w.outOfOrderInterval # Null
    THEN [w EXCEPT !.outOfOrderInterval = Null, !.outOfOrderTimers = @ - 1]
    ELSE w

startLifeRewardSystem(w) ==
    IF w.lifeRewardInterval # Null THEN w
    ELSE [w EXCEPT !.lifeRewardInterval = LifeRewardIntervalMs,
                   !.lifeRewardTimers = @ + 1]

stopLifeRewardSystem(w) ==
    IF w.lifeRewardInterval # Null
    THEN [w EXCEPT !.lifeRewardInterval = Null, !.lifeRewardTimers = @ - 1]
    ELSE w

(* ---- main.js: buttons ------------------------------------------------ *)
applyStartingDifficulty(w) ==
    IF w.selectedDifficulty > 1
    THEN LET rate == Max(MinSpawnRate,
                         InitialSpawnRate
                           - (w.selectedDifficulty - 1) * SpawnRateDecrease)
         IN  updateSpawnRate([w EXCEPT !.state.difficulty = w.selectedDifficulty,
                                       !.state.spawnRate = rate],
                             rate)
    ELSE w

startButtonClick(w) ==
    startLifeRewardSystem(startOutOfOrderSystem(applyStartingDifficulty(start(w))))

restartButtonClick(w) ==
    startLifeRewardSystem(startOutOfOrderSystem(applyStartingDifficulty(
        start(stopLifeRewardSystem(stopOutOfOrderSystem(w))))))

gameTitleClick(w) ==
    LET w1 == IF w.state.status = "playing"
              THEN stopLifeRewardSystem(stopOutOfOrderSystem(pause(w)))
              ELSE w
    IN  [w1 EXCEPT !.state.status = "menu", !.state.score = 0]

(* ---- InputHandler ---------------------------------------------------- *)
\* the facility record a click on (type, index) resolves to
clickedFacility(w, type, index) ==
    IF type = "urinal" THEN w.urinals[index] ELSE w.cubicles[index]

\* validateFacilityAssignment: "ok", "out_of_order" or "occupied"
validateFacilityAssignment(w, type, index) ==
    LET facility == clickedFacility(w, type, index)
    IN  IF ~isAvailable(facility)
        THEN (IF facility.outOfOrder THEN "out_of_order" ELSE "occupied")
        ELSE "ok"

\* what processFacilityClick reports for a click on (type, index)
clickResult(w, type, index) ==
    LET validation == validateFacilityAssignment(w, type, index)
    IN  IF validation # "ok" THEN validation
        ELSE IF getMalesInQueue(w) = {} THEN "queue_empty"
        ELSE "assigned"

\* processFacilityClick claiming the reward of the clicked facility before
\* it validates the click
processFacilityClickRewardFirst(w, type, index) ==
    LET w1 == IF ~clickedFacility(w, type, index).hasLifeReward THEN w
              ELSE IF type = "urinal"
              THEN [gainLife(w) EXCEPT !.urinals[index].hasLifeReward = FALSE]
              ELSE [gainLife(w) EXCEPT !.cubicles[index].hasLifeReward = FALSE]
    IN  IF validateFacilityAssignment(w1, type, index) # "ok" THEN w1
        ELSE IF getMalesInQueue(w1) = {} THEN w1
        ELSE LET nextMale == SetMin(getMalesInQueue(w1))
             IN  IF type = "urinal"
                 THEN assignMale(assignMaleToUrinal(w1, nextMale, index),
                                 nextMale, "urinal", index)
                 ELSE assignMale(assignMaleToCubicle(w1, nextMale, index),
                                 nextMale, "cubicle", index)

\* processFacilityClick
processFacilityClick(w, type, index) ==
    IF validateFacilityAssignment(w, type, index) # "ok" THEN w
    ELSE IF getMalesInQueue(w) = {} THEN w
    ELSE LET nextMale == SetMin(getMalesInQueue(w))
         IN  IF type = "urinal"
             THEN assignMale(assignMaleToUrinal(w, nextMale, index),
                             nextMale, "urinal", index)
             ELSE assignMale(assignMaleToCubicle(w, nextMale, index),
                             nextMale, "cubicle", index)

\* handleKeyDown for ' ' and 'Escape'
keyPause(w) ==
    IF w.state.status = "playing" THEN pause(w)
    ELSE IF w.state.status = "paused" THEN resume(w)
    ELSE w

\* handleKeyDown for 'r' and 'R'
keyRestart(w) == IF w.state.status = "gameOver" THEN start(w) ELSE w

(* ---- clocks ----------------------------------------------------------- *)
\* the times to the pending one-shot timeouts and interval ticks
PendingTimes(w) ==
    {w.adjacencyTimeouts[k] : k \in DOMAIN w.adjacencyTimeouts}
    \cup {w.restoreTimeouts[k].remaining : k \in DOMAIN w.restoreTimeouts}
    \cup (IF w.outOfOrderInterval = Null THEN {} ELSE {w.outOfOrderInterval})
    \cup (IF w.lifeRewardInterval = Null THEN {} ELSE {w.lifeRewardInterval})

\* the times after which a frame of the running loop finds something new:
\* a waiting male's patience runs out, a usage duration completes, a spawn
\* is due
FrameTimes(w) ==
    IF ~w.isRunning THEN {}
    ELSE {getTimeRemaining(w.maleSpawner.males[i]) : i \in getMalesInQueue(w)}
         \cup {UrinalUsageTime - w.urinals[i].occupiedFor :
                  i \in {j \in UrinalIdx : w.urinals[j].occupiedFor # Null}}
         \cup {CubicleUsageTime - w.cubicles[i].occupiedFor :
                  i \in {j \in CubicleIdx : w.cubicles[j].occupiedFor # Null}}
         \cup {w.maleSpawner.spawnRate - w.maleSpawner.timeSinceLastSpawn}

\* the clock moves from one instant at which a callback is due to the next
NextTimes(w) == PendingTimes(w) \cup {t \in FrameTimes(w) : t > 0}

Delta(w) == SetMin(NextTimes(w))

ageFacility(f, type, d) ==
    IF f.occupiedFor = Null THEN f
    ELSE [f EXCEPT !.occupiedFor = Min(usageDuration(type), @ + d)]

\* spawnTime is read only while the male waits
ageMale(m, d) ==
    IF m.state = "waiting"
    THEN [m EXCEPT !.waited = Min(m.maxWaitTime, @ + d)]
    ELSE m

\* d time units pass
elapse(w, d) ==
    [w EXCEPT
        !.sinceFrame = IF w.isRunning THEN @ + d ELSE @,
        !.urinals = [i \in UrinalIdx |-> ageFacility(@[i], "urinal", d)],
        !.cubicles = [i \in CubicleIdx |-> ageFacility(@[i], "cubicle", d)],
        !.maleSpawner.males = [i \in DOMAIN @ |-> ageMale(@[i], d)],
        !.adjacencyTimeouts = [k \in DOMAIN @ |-> @[k] - d],
        !.restoreTimeouts = [k \in DOMAIN @ |-> [@[k] EXCEPT !.remaining = @ - d]],
        !.outOfOrderInterval = IF @ = Null THEN @ ELSE @ - d,
        !.lifeRewardInterval = IF @ = Null THEN @ ELSE @ - d]

\* remove element k of sequence s
RemoveAt(s, k) == SubSeq(s, 1, k - 1) \o SubSeq(s, k + 1, Len(s))

(* ---- the state machine ------------------------------------------------ *)
WithinBounds(w) ==
    /\ w.maleSpawner.nextMaleId <= maxMaleId + 1
    /\ w.malesLeft >= 0
    /\ w.state.lives <= MaxLives

\* a handler that is not a session control
Step(w) ==
    /\ WithinBounds(w)
    /\ Commit(w)
    /\ UNCHANGED <<maxMaleId, controlsLeft>>

\* a session control
Control(w) ==
    /\ controlsLeft > 0
    /\ WithinBounds(w)
    /\ Commit(w)
    /\ controlsLeft' = controlsLeft - 1
    /\ UNCHANGED maxMaleId

InitState ==
    [status |-> "menu", score |-> 0, highScore |-> 0, isNewHighScore |-> FALSE,
     difficulty |-> 1, lives |-> StartLives, gameOverReason |-> "none",
     spawnRate |-> InitialSpawnRate]

InitWithStorage(sessionMales, males, sessionControls, available) ==
    /\ state = InitState
    /\ isRunning = FALSE
    /\ sinceFrame = 0
    /\ urinals = [i \in UrinalIdx |-> NewFacility]
    /\ cubicles = [i \in CubicleIdx |-> NewFacility]
    /\ maleSpawner = [males |-> <<>>, nextMaleId |-> 1, timeSinceLastSpawn |-> 0,
                      spawnRate |-> InitialSpawnRate]
    /\ storage = 0
    /\ storageAvailable = available
    /\ adjacencyTimeouts = <<>>
    /\ restoreTimeouts = <<>>
    /\ outOfOrderInterval = Null
    /\ lifeRewardInterval = Null
    /\ outOfOrderTimers = 0
    /\ lifeRewardTimers = 0
    /\ selectedDifficulty = 1
    /\ maxMaleId = sessionMales
    /\ malesLeft = males
    /\ controlsLeft = sessionControls

\* the page of a browser whose localStorage works
InitWith(sessionMales, males, sessionControls) ==
    InitWithStorage(sessionMales, males, sessionControls, TRUE)

Init == InitWith(MaxMaleId, MaxMaleId * MaxControls, MaxControls)

PlayInit == InitWith(PlayMaxMales, PlayMaxMales, PlayMaxControls)

\* time passes up to the next instant at which something is due; a running
\* loop has rendered its frames (requestAnimationFrame fires many times
\* between two such instants) and a timer that is due has fired
AdvanceTime ==
    /\ isRunning => gameLoop(World) = World
    /\ NextTimes(World) # {}
    /\ Delta(World) > 0
    /\ Step(elapse(World, Delta(World)))

\* requestAnimationFrame callback of the engine's loop
Frame ==
    /\ isRunning
    /\ Step(gameLoop(World))

\* the delayed loseLife('adjacency') of assignMaleToUrinal
AdjacencyTimeout ==
    /\ adjacencyTimeouts # <<>>
    /\ Head(adjacencyTimeouts) = 0
    /\ Step(loseLife([World EXCEPT !.adjacencyTimeouts = Tail(@)], "adjacency"))

\* the delayed restoreFacility of addRandomOutOfOrderFacility
RestoreTimeout ==
    \E k \in DOMAIN restoreTimeouts :
        /\ restoreTimeouts[k].remaining = 0
        /\ Step(restoreFacility([World EXCEPT !.restoreTimeouts = RemoveAt(@, k)],
                                restoreTimeouts[k].type, restoreTimeouts[k].index))

OutOfOrderTick ==
    /\ outOfOrderInterval = 0
    /\ \E r \in RandomPct, restorePct \in RandomPct :
       \E pick \in 1 .. Max(1, Len(getWeightedOutOfOrderFacility(World))) :
          Step(outOfOrderCallback(
                   [World EXCEPT !.outOfOrderInterval = OutOfOrderIntervalMs],
                   r, pick, restorePct))

LifeRewardTick ==
    /\ lifeRewardInterval = 0
    /\ \E r \in RandomPct :
       \E pick \in 1 .. Max(1, Len(weightedReward(World))) :
          Step(lifeRewardCallback(
                   [World EXCEPT !.lifeRewardInterval = LifeRewardIntervalMs],
                   r, pick))

\* InputHandler.handleClick (and the keys 1-5) on a facility
ClickFacility ==
    /\ state.status = "playing"
    /\ \E type \in {"urinal", "cubicle"} :
       \E index \in (IF type = "urinal" THEN UrinalIdx ELSE CubicleIdx) :
          Step(processFacilityClick(World, type, index))

\* the Start button of the menu screen
StartButton ==
    /\ state.status = "menu"
    /\ Control(startButtonClick(World))

\* the Play Again button of the game-over screen
RestartButton ==
    /\ state.status = "gameOver"
    /\ Control(restartButtonClick(World))

\* the game title, which can be clicked at any time
GameTitleClick ==
    /\ state.status \in {"menu", "playing", "paused", "gameOver"}
    /\ Control(gameTitleClick(World))

KeyPause ==
    /\ state.status \in {"playing", "paused"}
    /\ Control(keyPause(World))

KeyRestart ==
    /\ state.status = "gameOver"
    /\ Control(keyRestart(World))

\* the + and - of the difficulty selector, shown while not playing
DifficultyPlus ==
    /\ state.status # "playing"
    /\ selectedDifficulty < MaxStartDifficulty
    /\ Step([World EXCEPT !.selectedDifficulty =
                              Min(MaxSelectableDifficulty, @ + 1)])

DifficultyMinus ==
    /\ state.status # "playing"
    /\ Step([World EXCEPT !.selectedDifficulty = Max(1, @ - 1)])

Next ==
    \/ AdvanceTime
    \/ Frame
    \/ AdjacencyTimeout
    \/ RestoreTimeout
    \/ OutOfOrderTick
    \/ LifeRewardTick
    \/ ClickFacility
    \/ StartButton
    \/ RestartButton
    \/ GameTitleClick
    \/ KeyPause
    \/ KeyRestart
    \/ DifficultyPlus
    \/ DifficultyMinus

Spec == Init /\ [][Next]_vars

\* sessions with pauses and returns to the menu, followed as far as the
\* first outage: no restoration is due yet and no session is lost
PauseNext ==
    \/ AdvanceTime
    \/ Frame
    \/ AdjacencyTimeout
    \/ OutOfOrderTick
    \/ LifeRewardTick
    \/ ClickFacility
    \/ StartButton
    \/ GameTitleClick
    \/ KeyPause
    \/ DifficultyPlus
    \/ DifficultyMinus

PauseSpec == Init /\ [][PauseNext]_vars

\* one uninterrupted session and its restarts: no pause, no return to the
\* menu, and over before the first interval callback is due
PlayNext ==
    \/ AdvanceTime
    \/ Frame
    \/ AdjacencyTimeout
    \/ ClickFacility
    \/ StartButton
    \/ RestartButton
    \/ KeyRestart
    \/ DifficultyPlus
    \/ DifficultyMinus

PlaySpec == PlayInit /\ [][PlayNext]_vars

(* ---- a session that is played well ---------------------------------- *)
\* the urinals that are available and have no occupied neighbour
safeUrinals(w) ==
    {i \in UrinalIdx : isAvailable(w.urinals[i]) /\ ~isUrinalAdjacent(w, i)}

\* InputHandler.handleClick on the first urinal that is available and has
\* no occupied neighbour: the click of a player who avoids every violation
ClickSafely ==
    /\ state.status = "playing"
    /\ safeUrinals(World) # {}
    /\ Step(processFacilityClick(World, "urinal", SetMin(safeUrinals(World))))

ScoreInit == InitWith(ScoreMaxMales, ScoreMaxMales, 1)

\* one session of a player who sends the males to urinals without any
\* adjacency violation, followed up to the first score milestone
ScoreNext ==
    \/ AdvanceTime
    \/ Frame
    \/ LifeRewardTick
    \/ OutOfOrderTick
    \/ ClickSafely
    \/ StartButton

ScoreSpec == ScoreInit /\ [][ScoreNext]_vars

(* ---- sessions followed up to outages and restorations ---------------- *)
\* a player who pauses and resumes and never clicks a facility: the males
\* wait and time out, outages come with the interval and are restored by
\* their timers
OutageNext ==
    \/ AdvanceTime
    \/ Frame
    \/ RestoreTimeout
    \/ OutOfOrderTick
    \/ LifeRewardTick
    \/ StartButton
    \/ KeyPause
    \/ DifficultyPlus

OutageInit ==
    InitWith(OutageMaxMales, OutageMaxMales * OutageMaxControls, OutageMaxControls)

OutageSpec == OutageInit /\ [][OutageNext]_vars

\* the same player, who also returns to the menu by the game title
RestoreNext ==
    \/ AdvanceTime
    \/ Frame
    \/ RestoreTimeout
    \/ OutOfOrderTick
    \/ LifeRewardTick
    \/ StartButton
    \/ GameTitleClick
    \/ KeyPause
    \/ DifficultyPlus

\* followed up to the restoration of the first outage
RestoreInit ==
    InitWith(OutageMaxMales, OutageMaxMales * OutageMaxControls,
             OutageMaxControls - 1)

RestoreSpec == RestoreInit /\ [][RestoreNext]_vars

\* followed into the outages of a second session
StaleInit ==
    InitWith(OutageMaxMales, OutageMaxMales * (OutageMaxControls + 2),
             OutageMaxControls + 2)

StaleSpec == StaleInit /\ [][RestoreNext]_vars

(* ---- a session lost after the return to the menu -------------------- *)
\* one more male than the session's ids, for the spawn of the restart
MenuInit == InitWith(MenuMaxMales, MenuMaxMales + 1, MenuMaxControls)

\* a player who clicks facilities, returns to the menu by the game title
\* and restarts a lost session with the R key
MenuNext ==
    \/ AdvanceTime
    \/ Frame
    \/ AdjacencyTimeout
    \/ ClickFacility
    \/ StartButton
    \/ GameTitleClick
    \/ KeyRestart

MenuSpec == MenuInit /\ [][MenuNext]_vars

(* ---- sessions begun and ended in every way ------------------------- *)
LifecycleInit ==
    InitWith(LifecycleMaxMales, LifecycleMaxMales * LifecycleMaxControls,
             LifecycleMaxControls)

\* a player who never clicks a facility and uses every session control:
\* Start, Play Again, the pause key, the game title and the R key; the
\* sessions are lost by timeouts
LifecycleNext ==
    \/ AdvanceTime
    \/ Frame
    \/ OutOfOrderTick
    \/ LifeRewardTick
    \/ StartButton
    \/ RestartButton
    \/ GameTitleClick
    \/ KeyPause
    \/ KeyRestart

LifecycleSpec == LifecycleInit /\ [][LifecycleNext]_vars

(* ---- one session up to the first releases ---------------------------- *)
SweepInit == InitWith(SweepMaxMales, SweepMaxMales, 1)

\* one session of a player who clicks any facility at any time, followed
\* until the first interval callback is due: usages of urinals and of a
\* cubicle complete, adjacency penalties fall due
SweepNext ==
    \/ AdvanceTime
    \/ Frame
    \/ AdjacencyTimeout
    \/ ClickFacility
    \/ StartButton

SweepSpec == SweepInit /\ [][SweepNext]_vars

(* ---- a paused session with a urinal in use ---------------------------- *)
\* InputHandler.handleClick on the first available urinal while a male
\* waits: the click of a player who fills the urinals from the left
ClickFirstUrinal ==
    LET availableUrinals == {i \in UrinalIdx : isAvailable(urinals[i])}
    IN  /\ state.status = "playing"
        /\ availableUrinals # {}
        /\ getMalesInQueue(World) # {}
        /\ Step(processFacilityClick(World, "urinal", SetMin(availableUrinals)))

\* one session of that player, who pauses and resumes once: usages complete
\* and patience runs out during the pause
OrderNext ==
    \/ AdvanceTime
    \/ Frame
    \/ AdjacencyTimeout
    \/ LifeRewardTick
    \/ OutOfOrderTick
    \/ ClickFirstUrinal
    \/ StartButton
    \/ KeyPause

OrderSpec ==
    /\ InitWith(OrderMaxMales, OrderMaxMales, OrderMaxControls)
    /\ [][OrderNext]_vars

(* ---- sessions with and without localStorage --------------------------- *)
\* a session and its restart, both lost to adjacency penalties
StorageNext ==
    \/ AdvanceTime
    \/ Frame
    \/ AdjacencyTimeout
    \/ ClickFirstUrinal
    \/ StartButton
    \/ RestartButton

\* the page of a browser whose localStorage works or throws
StorageSpec ==
    /\ \E available \in BOOLEAN :
           InitWithStorage(StorageSessionMales, StorageMaxMales,
                           StorageMaxControls, available)
    /\ [][StorageNext]_vars

(* ---- a session under a fair scheduler --------------------------------- *)
\* InputHandler.handleClick for one of the first males: the player sends
\* them to the first available urinal and then leaves the game alone
ClickEarly ==
    /\ getMalesInQueue(World) # {}
    /\ SetMin(getMalesInQueue(World)) <= LiveClickMales
    /\ ClickFirstUrinal

LiveNext ==
    \/ AdvanceTime
    \/ Frame
    \/ AdjacencyTimeout
    \/ OutOfOrderTick
    \/ LifeRewardTick
    \/ ClickEarly
    \/ StartButton

\* ENABLED <<Frame>>_vars: the scheduled game loop has something to do
FrameDue ==
    /\ isRunning
    /\ gameLoop(World) # World
    /\ WithinBounds(gameLoop(World))

\* ENABLED <<AdvanceTime>>_vars: nothing is due now and something is pending
AdvanceTimeDue ==
    /\ isRunning => gameLoop(World) = World
    /\ NextTimes(World) # {}
    /\ Delta(World) > 0
    /\ elapse(World, Delta(World)) # World
    /\ WithinBounds(elapse(World, Delta(World)))

\* the browser: time passes, requestAnimationFrame runs the game loop while
\* it is scheduled, and a timer that is due fires; clicks are never owed.
\* Weak fairness of the clock, the frame and the two intervals is written
\* out with the enabling condition of each; an interval is enabled when it
\* is due, since its callback re-arms it whatever else it does
LiveSpec ==
    /\ InitWith(LiveMaxMales, LiveMaxMales, 1)
    /\ [][LiveNext]_vars
    /\ []<>(~AdvanceTimeDue) \/ []<><<AdvanceTime>>_vars
    /\ []<>(~FrameDue) \/ []<><<Frame>>_vars
    /\ []<>(~(outOfOrderInterval = 0 /\ WithinBounds(World)))
           \/ []<><<OutOfOrderTick>>_vars
    /\ []<>(~(lifeRewardInterval = 0 /\ WithinBounds(World)))
           \/ []<><<LifeRewardTick>>_vars
    /\ WF_vars(AdjacencyTimeout)

(* ---- adjacency ------------------------------------------------------ *)
\* the urinals next to urinal i that exist
Neighbours(i) == {i - 1, i + 1} \cap UrinalIdx

\* C1: in every reachable pool state, assigning any male to any available
\* urinal i is not rejected and occupies i with that male, and it schedules
\* exactly one adjacency penalty of AdjacencyDelay when a neighbour of i is
\* occupied once i is occupied, and none otherwise
C1_AssignToAvailableUrinal ==
    \A i \in UrinalIdx : \A maleId \in 1 .. PlayMaxMales :
        isAvailable(urinals[i]) =>
            LET after == assignMaleToUrinal(World, maleId, i)
                violation == \E j \in Neighbours(i) : after.urinals[j].occupied
            IN  /\ ~assignMaleToUrinalThrows(World, i)
                /\ after.urinals[i].occupied
                /\ after.urinals[i].occupiedBy = maleId
                /\ after.urinals[i].occupiedFor = 0
                /\ after.adjacencyTimeouts =
                       IF violation
                       THEN Append(adjacencyTimeouts, AdjacencyDelay)
                       ELSE adjacencyTimeouts

\* a urinal has just been assigned next to an occupied one and the penalty
\* is pending
C1_Witness ==
    \E i \in UrinalIdx :
        /\ urinals[i].occupied
        /\ urinals[i].occupiedFor = 0
        /\ i + 1 \in UrinalIdx
        /\ urinals[i + 1].occupied
        /\ urinals[i + 1].occupiedFor > 0
        /\ adjacencyTimeouts = <<AdjacencyDelay>>

\* C2: a step that occupies a urinal takes no life, and it schedules exactly
\* one penalty, due after AdjacencyDelay, when a neighbour is occupied (one
\* also when both are) and none otherwise; a step that takes a pending
\* penalty off takes exactly one that is due, and it takes exactly one life
C2_PenaltyOnceAfterDelay ==
    [][/\ \A i \in UrinalIdx :
            (~urinals[i].occupied /\ urinals'[i].occupied) =>
                /\ state'.lives >= state.lives
                /\ adjacencyTimeouts' =
                      IF \E j \in Neighbours(i) : urinals'[j].occupied
                      THEN Append(adjacencyTimeouts, AdjacencyDelay)
                      ELSE adjacencyTimeouts
       /\ Len(adjacencyTimeouts') > Len(adjacencyTimeouts) =>
            \E i \in UrinalIdx : ~urinals[i].occupied /\ urinals'[i].occupied
       /\ Len(adjacencyTimeouts') < Len(adjacencyTimeouts) =>
            /\ Head(adjacencyTimeouts) = 0
            /\ adjacencyTimeouts' = Tail(adjacencyTimeouts)
            /\ state'.lives = state.lives - 1
       /\ Len(adjacencyTimeouts') = Len(adjacencyTimeouts) =>
            \/ adjacencyTimeouts' = adjacencyTimeouts
            \/ \E d \in 1 .. AdjacencyDelay :
                  adjacencyTimeouts' = [k \in DOMAIN adjacencyTimeouts |->
                                           adjacencyTimeouts[k] - d]]_vars

\* the middle urinal was assigned AdjacencyDelay ago between two urinals in
\* use, and the session has lost exactly one life
C2_Witness ==
    /\ UrinalCount >= 3
    /\ \A i \in 0 .. 2 : urinals[i].occupied
    /\ urinals[1].occupiedFor = AdjacencyDelay
    /\ urinals[0].occupiedFor > AdjacencyDelay
    /\ urinals[2].occupiedFor > AdjacencyDelay
    /\ adjacencyTimeouts = <<>>
    /\ state.lives = StartLives - 1
    /\ state.score = 0
    /\ controlsLeft = PlayMaxControls - 1

\* C3: once the status is gameOver, lives and gameOverReason keep their
\* values while it stays gameOver, and lives never drop below 0
C3_LoseLifeIgnoredAfterGameOver ==
    [][/\ state'.lives >= 0
       /\ (state.status = "gameOver" /\ state'.status = "gameOver") =>
              /\ state'.lives = state.lives
              /\ state'.gameOverReason = state.gameOverReason]_vars

(* ---- sessions ------------------------------------------------------- *)
\* the facility and occupant state of a session that has just started
FreshSession(w) ==
    /\ \A i \in UrinalIdx : w.urinals[i] = NewFacility
    /\ \A i \in CubicleIdx : w.cubicles[i] = NewFacility
    /\ DOMAIN w.maleSpawner.males = {1}
    /\ w.maleSpawner.males[1] = NewMale
    /\ w.maleSpawner.nextMaleId = 2

\* C4: from every reachable state, returning to the menu and starting a new
\* session gives the facility and occupant state of a fresh session: every
\* facility free, in order and without reward, and the males rebuilt from
\* id 1
C4_ResetRoundTrip == FreshSession(startButtonClick(gameTitleClick(World)))

\* the changes of status the session state machine allows
AllowedStatusChanges ==
    {<<"menu", "playing">>, <<"playing", "paused">>, <<"paused", "playing">>,
     <<"playing", "gameOver">>, <<"gameOver", "playing">>,
     <<"playing", "menu">>, <<"gameOver", "menu">>}

\* C5: every step that changes the status changes it along one of the
\* allowed changes; gameOver is not entered from paused or from menu
C5_StatusTransitions ==
    [][state'.status # state.status =>
          <<state.status, state'.status>> \in AllowedStatusChanges]_vars

\* C6: a pending adjacency penalty is never dropped, whatever the session
\* does meanwhile: it only counts down, it is never overdue, and it leaves
\* the pending ones at the instant it is due by one loseLife('adjacency')
\* on the session state of that instant
C6_PenaltyNotCancellable ==
    [][/\ \A k \in DOMAIN adjacencyTimeouts' : adjacencyTimeouts'[k] >= 0
       /\ \/ adjacencyTimeouts' = adjacencyTimeouts
          \/ adjacencyTimeouts' = Append(adjacencyTimeouts, AdjacencyDelay)
          \/ \E d \in 1 .. AdjacencyDelay :
                adjacencyTimeouts' = [k \in DOMAIN adjacencyTimeouts |->
                                         adjacencyTimeouts[k] - d]
          \/ /\ adjacencyTimeouts # <<>>
             /\ Head(adjacencyTimeouts) = 0
             /\ adjacencyTimeouts' = Tail(adjacencyTimeouts)
             /\ state' = loseLife(World, "adjacency").state]_vars

\* a penalty scheduled in one session has landed on the next one, started
\* from the menu within the delay
C6_Witness ==
    /\ state.status = "playing"
    /\ state.lives = StartLives - 1
    /\ adjacencyTimeouts = <<>>
    /\ \A i \in UrinalIdx : ~urinals[i].occupied
    /\ DOMAIN maleSpawner.males = {1}
    /\ maleSpawner.males[1].state = "waiting"
    /\ maleSpawner.males[1].waited = AdjacencyDelay

\* C7: a step that occupies a facility carrying a reward gives exactly one
\* life and clears the reward in that step; a penalty of the same
\* assignment is only scheduled, to take its life after the delay
C7_RewardClaimedOnAssign ==
    [][/\ \A i \in UrinalIdx :
            (~urinals[i].occupied /\ urinals'[i].occupied
                 /\ urinals[i].hasLifeReward) =>
                /\ state'.lives = state.lives + 1
                /\ ~urinals'[i].hasLifeReward
                /\ (\E j \in Neighbours(i) : urinals'[j].occupied) =>
                       adjacencyTimeouts' =
                           Append(adjacencyTimeouts, AdjacencyDelay)
       /\ \A i \in CubicleIdx :
            (~cubicles[i].occupied /\ cubicles'[i].occupied
                 /\ cubicles[i].hasLifeReward) =>
                /\ state'.lives = state.lives + 1
                /\ ~cubicles'[i].hasLifeReward]_vars

\* a urinal that carried a reward has just been assigned next to one in
\* use: the life is gained and the penalty is still pending
C7_Witness ==
    \E i \in UrinalIdx :
        /\ urinals[i].occupied
        /\ urinals[i].occupiedFor = 0
        /\ ~urinals[i].hasLifeReward
        /\ \E j \in Neighbours(i) : urinals[j].occupied
        /\ state.lives = StartLives + 1
        /\ adjacencyTimeouts = <<AdjacencyDelay>>

\* C8: in every reachable state, a click that is rejected because the
\* facility is occupied or out of order or because no male waits leaves
\* the whole state as it is: facilities, males, lives and score, and a
\* reward on the rejected facility
C8_RejectedClickChangesNothing ==
    \A type \in {"urinal", "cubicle"} :
        \A index \in (IF type = "urinal" THEN UrinalIdx ELSE CubicleIdx) :
            clickResult(World, type, index) # "assigned" =>
                processFacilityClick(World, type, index) = World

\* the session is playing, a male waits, and a facility that is not
\* available carries a reward
C8_Witness ==
    /\ state.status = "playing"
    /\ getMalesInQueue(World) # {}
    /\ \/ \E i \in UrinalIdx :
             ~isAvailable(urinals[i]) /\ urinals[i].hasLifeReward
       \/ \E i \in CubicleIdx :
             ~isAvailable(cubicles[i]) /\ cubicles[i].hasLifeReward

\* the facility invariant of one facility record
FacilityOk(f) ==
    /\ f.occupied => (f.occupiedFor # Null /\ f.occupiedBy # NoMale
                         /\ ~f.outOfOrder)
    /\ f.outOfOrder => ~f.occupied

\* C9: in every reachable state every facility that is occupied has its
\* occupiedSince and occupiedBy set and is in order, none that is out of
\* order is occupied, and putting any of them out of order keeps it so
C9_FacilityInvariant ==
    /\ \A i \in UrinalIdx :
          FacilityOk(urinals[i]) /\ FacilityOk(setOutOfOrder(urinals[i], TRUE))
    /\ \A i \in CubicleIdx :
          FacilityOk(cubicles[i]) /\ FacilityOk(setOutOfOrder(cubicles[i], TRUE))

\* a urinal is out of order while another one is in use
C9_Witness ==
    \E i, j \in UrinalIdx : urinals[i].outOfOrder /\ urinals[j].occupied

\* C10: a step from menu or gameOver to playing ends with score 0,
\* StartLives lives, no gameOverReason, every facility free and in order,
\* and exactly one male, waiting, with id 1
C10_StateAfterStart ==
    [][(state.status \in {"menu", "gameOver"} /\ state'.status = "playing") =>
          /\ state'.score = 0
          /\ state'.lives = StartLives
          /\ state'.gameOverReason = "none"
          /\ \A i \in UrinalIdx :
                ~urinals'[i].occupied /\ ~urinals'[i].outOfOrder
          /\ \A i \in CubicleIdx :
                ~cubicles'[i].occupied /\ ~cubicles'[i].outOfOrder
          /\ DOMAIN maleSpawner'.males = {1}
          /\ maleSpawner'.males[1].state = "waiting"]_vars

\* a session has just been started again from gameOver, after one in which
\* facilities were in use
C10_Witness ==
    /\ state.status = "playing"
    /\ controlsLeft = PlayMaxControls - 2
    /\ state.highScore > 0
    /\ DOMAIN maleSpawner.males = {1}
    /\ maleSpawner.males[1].waited = 0
    /\ state.lives = StartLives

(* ---- difficulty and spawn rate ------------------------------------- *)
\* the spawn interval of difficulty d: initialSpawnRate less
\* spawnRateDecrease per level above 1, floored at minSpawnRate
DifficultySpawnRate(d) ==
    Max(MinSpawnRate, InitialSpawnRate - (d - 1) * SpawnRateDecrease)

\* C11: every step that starts a session (from menu or from gameOver) while
\* the selected starting difficulty is above 1 begins the session at that
\* difficulty, with the spawn rate of that difficulty
C11_StartingDifficultyApplied ==
    [][(state.status \in {"menu", "gameOver"} /\ state'.status = "playing"
            /\ selectedDifficulty > 1) =>
          /\ state'.difficulty = selectedDifficulty
          /\ state'.spawnRate = DifficultySpawnRate(selectedDifficulty)]_vars

\* C12: while a session is playing, the interval the spawner waits between
\* two spawns is the session's spawnRate, which is the spawn rate of the
\* current difficulty (2000 at difficulty 1, never below MinSpawnRate)
C12_SpawnerUsesSessionRate ==
    state.status = "playing" =>
        /\ maleSpawner.spawnRate = state.spawnRate
        /\ maleSpawner.spawnRate = DifficultySpawnRate(state.difficulty)

\* the session of w, at difficulty d with the spawn rate of d
AtDifficulty(w, d) ==
    [w EXCEPT !.state.difficulty = d, !.state.spawnRate = DifficultySpawnRate(d)]

\* C13: while a session is playing its spawnRate is the spawn rate of its
\* difficulty; the Start button with any selectable starting difficulty
\* begins such a session, and updateDifficulty takes a session at any
\* difficulty d with the spawn rate of d to difficulty d + 1 with the spawn
\* rate of d + 1
C13_SpawnRateOfDifficulty ==
    /\ state.status = "playing" =>
           state.spawnRate = DifficultySpawnRate(state.difficulty)
    /\ state.status = "menu" =>
           \A d \in 1 .. MaxSelectableDifficulty :
               LET w == startButtonClick([World EXCEPT !.selectedDifficulty = d])
               IN  /\ w.state.difficulty = d
                   /\ w.state.spawnRate = DifficultySpawnRate(d)
    /\ \A d \in 1 .. MaxDifficulty :
           LET w == updateDifficulty(AtDifficulty(World, d))
           IN  /\ w.state.difficulty = d + 1
               /\ w.state.spawnRate = DifficultySpawnRate(d + 1)

\* a session started at difficulty 1 has reached score 10: difficulty 2 and
\* spawnRate 1850
C13_Witness ==
    /\ state.status = "playing"
    /\ state.score = DifficultyIncreaseScore
    /\ state.difficulty = 2
    /\ state.spawnRate = InitialSpawnRate - SpawnRateDecrease

\* C14: within one session (a step from playing or paused that neither
\* returns to the menu nor starts a session) the score never falls and the
\* difficulty rises by one for each multiple of DifficultyIncreaseScore the
\* score reaches, and changes for no other reason
C14_DifficultyFollowsScore ==
    [][(state.status \in {"playing", "paused"}
            /\ state'.status \in {"playing", "paused", "gameOver"}) =>
          /\ state'.score >= state.score
          /\ state'.difficulty - state.difficulty =
                 (state'.score \div DifficultyIncreaseScore)
                     - (state.score \div DifficultyIncreaseScore)]_vars

\* a session started at difficulty 1 is past its first milestone
C14_Witness ==
    /\ state.status = "playing"
    /\ selectedDifficulty = 1
    /\ state.score >= DifficultyIncreaseScore
    /\ state.difficulty = 1 + state.score \div DifficultyIncreaseScore

\* C15: in every reachable state, the score increment of a urinal release
\* leaves the same session state (score, difficulty, spawn rate) whether
\* the engine has its audio collaborator or not
C15_ProgressionWithoutAudio ==
    incrementScoreWith(World, FALSE) = incrementScoreWith(World, TRUE)

(* ---- high score ----------------------------------------------------- *)
\* C16: the high score of a finished session is settled once, in the step
\* that enters gameOver: a step entering gameOver stores the score exactly
\* when it is positive and above the stored value, and while the status
\* stays gameOver the outcome (the stored value, highScore and
\* isNewHighScore) is not computed again
C16_HighScoreSettledOnce ==
    [][/\ (state.status # "gameOver" /\ state'.status = "gameOver") =>
            /\ state'.isNewHighScore =
                   (state'.score > 0 /\ state'.score > storage)
            /\ storage' = IF state'.isNewHighScore THEN state'.score ELSE storage
       /\ (state.status = "gameOver" /\ state'.status = "gameOver") =>
            /\ storage' = storage
            /\ state'.highScore = state.highScore
            /\ state'.isNewHighScore = state.isNewHighScore]_vars

(* ---- outages -------------------------------------------------------- *)
\* the facility of the given type and index in w
facilityAt(w, type, index) ==
    IF type = "urinal" THEN w.urinals[index] ELSE w.cubicles[index]

\* C17: in every reachable state, setFacilityOutOfOrder on an occupied
\* facility leaves it out of order and unoccupied with occupiedBy and
\* occupiedSince cleared, leaves lives and score as they are, and leaves
\* the evicted male out of the spawner's live males
C17_OutageEvictsOccupant ==
    \A type \in {"urinal", "cubicle"} :
        \A index \in (IF type = "urinal" THEN UrinalIdx ELSE CubicleIdx) :
            facilityAt(World, type, index).occupied =>
                LET w == setFacilityOutOfOrder(World, type, index)
                    f == facilityAt(w, type, index)
                IN  /\ f.outOfOrder /\ ~f.occupied
                    /\ f.occupiedBy = NoMale /\ f.occupiedFor = Null
                    /\ w.state = state
                    /\ facilityAt(World, type, index).occupiedBy
                           \notin DOMAIN w.maleSpawner.males

\* the pending restorations of the facility (type, index) in a timer list
restoresOf(timeouts, type, index) ==
    {k \in DOMAIN timeouts :
        timeouts[k].type = type /\ timeouts[k].index = index}

\* C18: an outage lasts until its own restoration fires: a step that does
\* not start a session and puts a facility back in order is the firing of
\* the one restoration pending for that facility, so none is pending for it
\* afterwards (a restoration left over from an earlier session clears no
\* flag of the present one)
C18_StaleRestoreHasNoEffect ==
    [][~(state.status \in {"menu", "gameOver"} /\ state'.status = "playing") =>
          /\ \A i \in UrinalIdx :
                (urinals[i].outOfOrder /\ ~urinals'[i].outOfOrder) =>
                    restoresOf(restoreTimeouts', "urinal", i) = {}
          /\ \A i \in CubicleIdx :
                (cubicles[i].outOfOrder /\ ~cubicles'[i].outOfOrder) =>
                    restoresOf(restoreTimeouts', "cubicle", i) = {}]_vars

\* the facilities of the pool, as the (type, index) pairs of the timers
Facilities ==
    {[type |-> "urinal", index |-> i] : i \in UrinalIdx}
        \cup {[type |-> "cubicle", index |-> i] : i \in CubicleIdx}

\* the last element of a sequence that is not empty
Last(q) == q[Len(q)]

\* the restore times addRandomOutOfOrderFacility can draw
RestoreTimes == RestoreTimeMin .. (RestoreTimeMin + RestoreTimeSpread)

\* the facilities as a step leaves them
PoolAfter == [urinals |-> urinals', cubicles |-> cubicles']

C20_OutOfOrderCap ==
    /\ currentOutOfOrder(World) <= MaxOutOfOrderFacilities
    /\ \A pick \in 1 .. Max(1, Len(getWeightedOutOfOrderFacility(World))) :
           currentOutOfOrder(addRandomOutOfOrderFacility(World, pick, 0))
               <= MaxOutOfOrderFacilities

\* the cap is reached while a further facility could be drawn
C20_Witness ==
    /\ currentOutOfOrder(World) = MaxOutOfOrderFacilities
    /\ getWeightedOutOfOrderFacility(World) # <<>>

(* ---- C21: outages at the threshold difficulty ------------------------ *)
\* C21: in a playing session whose difficulty equals
\* outOfOrderStartDifficulty, with a facility available for an outage and
\* the cap not reached, some draw of the outage interval's callback puts a
\* facility out of order
C21_OutagePossibleAtThreshold ==
    (/\ state.status = "playing"
     /\ state.difficulty = OutOfOrderStartDifficulty
     /\ currentOutOfOrder(World) < MaxOutOfOrderFacilities
     /\ getWeightedOutOfOrderFacility(World) # <<>>)
    => \E r \in RandomPct :
       \E pick \in 1 .. Len(getWeightedOutOfOrderFacility(World)) :
          currentOutOfOrder(outOfOrderCallback(World, r, pick, 0))
              > currentOutOfOrder(World)

(* ---- C22..C25: the life cycle of the disruption systems -------------- *)
\* C22: whenever the status is playing, the outage interval and the reward
\* interval are both running
C22_SystemsRunWhilePlaying ==
    state.status = "playing" =>
        /\ outOfOrderInterval # Null
        /\ lifeRewardInterval # Null

\* C23: whenever the status is paused, gameOver or menu, neither the outage
\* interval nor the reward interval is running
C23_SystemsStoppedWhenNotPlaying ==
    state.status \in {"paused", "gameOver", "menu"} =>
        /\ outOfOrderInterval = Null
        /\ lifeRewardInterval = Null

\* C24: there is at most one live timer of the outage interval and at most
\* one of the reward interval, and a live timer is the one whose handle the
\* program keeps (none is left running without a handle)
C24_NoDoubleStart ==
    /\ outOfOrderTimers = (IF outOfOrderInterval = Null THEN 0 ELSE 1)
    /\ lifeRewardTimers = (IF lifeRewardInterval = Null THEN 0 ELSE 1)

\* a session has just begun (its first male has just been spawned) while
\* the timers of an earlier session were still running
C24_Witness ==
    /\ state.status = "playing"
    /\ DOMAIN maleSpawner.males = {1}
    /\ maleSpawner.males[1] = NewMale
    /\ outOfOrderTimers = 1
    /\ lifeRewardTimers = 1
    /\ outOfOrderInterval \in 1 .. (OutOfOrderIntervalMs - 1)
    /\ lifeRewardInterval \in 1 .. (LifeRewardIntervalMs - 1)

\* the flags of facility f that the disruption systems set
flagsSet(f) ==
    (IF f.outOfOrder THEN {"outOfOrder"} ELSE {})
    \cup (IF f.hasLifeReward THEN {"hasLifeReward"} ELSE {})

\* no facility of pool q has a flag set that it has not in pool p
noFlagAdded(p, q) ==
    /\ \A i \in UrinalIdx : flagsSet(q.urinals[i]) \subseteq flagsSet(p.urinals[i])
    /\ \A i \in CubicleIdx : flagsSet(q.cubicles[i]) \subseteq flagsSet(p.cubicles[i])

\* C25: while the status is not playing no step, a tick of either interval
\* included, puts a facility out of order or sets a reward flag
C25_TicksActOnlyWhilePlaying ==
    [][state.status # "playing" => noFlagAdded(World, PoolAfter)]_vars

\* the outage interval has just ticked in a paused session of difficulty 3
\* or more with a facility available for an outage: the male spawned at the
\* start has outlived its patience, which a running session does not allow
C25_Witness ==
    /\ state.status = "paused"
    /\ outOfOrderInterval = OutOfOrderIntervalMs
    /\ state.difficulty > OutOfOrderStartDifficulty
    /\ currentOutOfOrder(World) = 0
    /\ getWeightedOutOfOrderFacility(World) # <<>>
    /\ \E id \in getMalesInQueue(World) : hasTimedOut(maleSpawner.males[id])

(* ---- C26, C27: timeouts ---------------------------------------------- *)
\* the waiting males of w whose patience has run out
expiredMales(w) ==
    {i \in getMalesInQueue(w) : hasTimedOut(w.maleSpawner.males[i])}

\* C26: one update of the session, in a frame of a playing session or in the
\* resume of a paused one, processes at most one male that has timed out:
\* with none expired no life is lost and no waiting male leaves;
\* with some expired exactly one life is lost, with reason timeout if it was
\* the last, and exactly the expired male of lowest id leaves, the others
\* staying expired in the queue; the update after it takes the next lowest
C26_OneTimeoutPerTick ==
    state.status \in {"playing", "paused"} =>
        LET expired == expiredMales(World)
            w == IF state.status = "paused" THEN resume(World)
                 ELSE update(World, sinceFrame)
        IN  IF expired = {}
            THEN /\ w.state.lives = state.lives
                 /\ getMalesInQueue(World) \subseteq getMalesInQueue(w)
            ELSE /\ w.state.lives = state.lives - 1
                 /\ w.state.status = "gameOver" => w.state.gameOverReason = "timeout"
                 /\ SetMin(expired) \notin DOMAIN w.maleSpawner.males
                 /\ getMalesInQueue(World) \ getMalesInQueue(w) = {SetMin(expired)}
                 /\ expiredMales(w) = expired \ {SetMin(expired)}
                 /\ (w.state.status = "playing" /\ expiredMales(w) # {}) =>
                        LET w2 == update(w, 0)
                        IN  /\ w2.state.lives = state.lives - 2
                            /\ getMalesInQueue(w) \ getMalesInQueue(w2)
                                   = {SetMin(expiredMales(w))}

\* a session resumed after a long pause: one life has been lost to the first
\* of three males that timed out, the other two are still in the queue
C26_Witness ==
    /\ state.status = "playing"
    /\ state.lives = StartLives - 1
    /\ Cardinality(expiredMales(World)) >= 2

\* k timeouts in a row: the life loss checkGameOver applies, k times
RECURSIVE timeoutsInARow(_, _)
timeoutsInARow(w, k) ==
    IF k = 0 THEN w ELSE loseLife(timeoutsInARow(w, k - 1), "timeout")

\* the males of the session that have left the spawner; a player who never
\* clicks a facility loses them to timeouts only
malesGone(w) == w.maleSpawner.nextMaleId - 1 - Cardinality(DOMAIN w.maleSpawner.males)

\* C27: in a session of a player who claims no reward, every timeout costs
\* one of the StartLives lives; the session is over exactly when StartLives
\* males have timed out, with reason timeout and no life left, and it is
\* not over before; and from any playing state with L lives, L timeouts in
\* a row end the session with lives 0 and reason timeout, fewer leave it
\* playing
C27_TimeoutsEndSession ==
    /\ state.status \in {"playing", "paused", "gameOver"} =>
          /\ state.lives = StartLives - malesGone(World)
          /\ state.status = "gameOver" <=> malesGone(World) = StartLives
          /\ state.status = "gameOver" =>
                state.lives = 0 /\ state.gameOverReason = "timeout"
    /\ state.status = "playing" =>
          \A k \in 1 .. state.lives :
             LET w == timeoutsInARow(World, k)
             IN  /\ w.state.lives = state.lives - k
                 /\ k < state.lives => w.state.status = "playing"
                 /\ k = state.lives =>
                       /\ w.state.status = "gameOver"
                       /\ w.state.gameOverReason = "timeout"
                       /\ w.state.lives = 0

\* a session lost by three timeouts
C27_Witness ==
    /\ state.status = "gameOver"
    /\ state.gameOverReason = "timeout"
    /\ state.lives = 0
    /\ malesGone(World) = StartLives

(* ---- C28, C29: the auto-release sweep --------------------------------- *)
\* the facilities of a kind that are occupied before the step and free
\* after it
releasedUrinals == {i \in UrinalIdx : urinals[i].occupied /\ ~urinals'[i].occupied}

releasedCubicles == {i \in CubicleIdx : cubicles[i].occupied /\ ~cubicles'[i].occupied}

occupiedSince(w, type, index, t) ==
    IF type = "urinal"
    THEN [w EXCEPT !.urinals[index].occupiedFor = t]
    ELSE [w EXCEPT !.cubicles[index].occupiedFor = t]

\* C29: FacilityManager.update releases an occupied facility exactly when it
\* has been occupied for its usage duration or longer: whatever the state,
\* one unit before the duration the facility stays occupied by the same
\* male, at the duration and after it the facility is released
C29_ReleaseAtUsageDuration ==
    \A f \in Facilities :
       facilityAt(World, f.type, f.index).occupied =>
          LET duration == usageDuration(f.type)
              now == facilityAt(World, f.type, f.index).occupiedFor
          IN  \A t \in {0, now, duration - 1, duration, duration + 1} :
                 LET w == facilityUpdate(occupiedSince(World, f.type, f.index, t))
                     g == facilityAt(w, f.type, f.index)
                 IN  IF t >= duration
                     THEN ~g.occupied /\ g.occupiedBy = NoMale /\ g.occupiedFor = Null
                     ELSE g = facilityAt(occupiedSince(World, f.type, f.index, t),
                                         f.type, f.index)

\* a urinal whose usage duration has just completed next to a cubicle whose
\* has not
C29_Witness ==
    /\ \E i \in UrinalIdx :
          urinals[i].occupied /\ urinals[i].occupiedFor = UrinalUsageTime
    /\ \E i \in CubicleIdx :
          /\ cubicles[i].occupied
          /\ cubicles[i].occupiedFor \in 1 .. (CubicleUsageTime - 1)

(* ---- C30: the head of the queue -------------------------------------- *)
\* C30: a click that assigns takes the waiting male of lowest id: after it
\* that male is using, with the kind and index of the clicked facility
\* recorded and its clock untouched, the facility is occupied by that male,
\* and every other male is as before; a click that does not assign leaves
\* every male as it is
C30_AssignsHeadOfQueue ==
    \A f \in Facilities :
       LET w == processFacilityClick(World, f.type, f.index)
       IN  IF clickResult(World, f.type, f.index) = "assigned"
           THEN LET id == SetMin(getMalesInQueue(World))
                IN  /\ \A other \in getMalesInQueue(World) : id <= other
                    /\ DOMAIN w.maleSpawner.males = DOMAIN maleSpawner.males
                    /\ w.maleSpawner.males[id] =
                          [maleSpawner.males[id] EXCEPT
                              !.state = "using",
                              !.facilityType = f.type,
                              !.assignedFacility = f.index]
                    /\ facilityAt(w, f.type, f.index).occupied
                    /\ facilityAt(w, f.type, f.index).occupiedBy = id
                    /\ \A other \in DOMAIN maleSpawner.males \ {id} :
                          w.maleSpawner.males[other] = maleSpawner.males[other]
           ELSE w.maleSpawner.males = maleSpawner.males

\* two males wait while a third uses a facility, and a facility is free
C30_Witness ==
    /\ state.status = "playing"
    /\ Cardinality(getMalesInQueue(World)) >= 2
    /\ \E id \in DOMAIN maleSpawner.males : maleSpawner.males[id].state = "using"
    /\ \E f \in Facilities : clickResult(World, f.type, f.index) = "assigned"

(* ---- C31: the patience of a male --------------------------------------- *)
\* the step starts a session: the spawner is rebuilt and ids start again
StartsSession == state.status \in {"menu", "gameOver"} /\ state'.status = "playing"

\* C31: within a session, the time remaining of a male that waits before
\* and after a step does not grow; a male that no longer waits never waits
\* again, and from its assignment on its time remaining is its full
\* maxWaitTime and it is not reported as timed out
C31_TimeRemainingMonotone ==
    [][~StartsSession =>
          \A id \in DOMAIN maleSpawner.males \cap DOMAIN maleSpawner'.males :
             LET m == maleSpawner.males[id]
                 n == maleSpawner'.males[id]
             IN  /\ (m.state = "waiting" /\ n.state = "waiting") =>
                       getTimeRemaining(n) <= getTimeRemaining(m)
                 /\ m.state # "waiting" => n.state # "waiting"
                 /\ n.state # "waiting" =>
                       /\ getTimeRemaining(n) = n.maxWaitTime
                       /\ n.maxWaitTime = MaleWaitTime
                       /\ ~hasTimedOut(n)]_vars

\* a male is using a facility it was sent to after it had waited, while
\* another male's patience is running
C31_Witness ==
    /\ \E id \in DOMAIN maleSpawner.males :
          /\ maleSpawner.males[id].state = "using"
          /\ maleSpawner.males[id].waited > 0
    /\ \E id \in getMalesInQueue(World) :
          /\ getTimeRemaining(maleSpawner.males[id]) > 0
          /\ getTimeRemaining(maleSpawner.males[id]) < MaleWaitTime

(* ---- C32: the target of an outage -------------------------------------- *)
\* the list the outage target is drawn from in w holds exactly the
\* facilities that are neither occupied nor out of order, each as often as
\* its weight says; it is empty exactly when no facility is eligible
outageListOk(w) ==
    LET weighted == getWeightedOutOfOrderFacility(w)
        multiplicity(q, f) == Cardinality({k \in DOMAIN q : q[k] = f})
        outageWeight(f, d) ==
            IF f.type = "cubicle" THEN 2
            ELSE IF d <= 5
                 THEN (IF (f.index + 1) % 2 = 0 THEN 3 ELSE 1)
                 ELSE (IF (f.index + 1) % 2 = 1 THEN 3 ELSE 1)
        eligible == {f \in Facilities :
                        LET g == facilityAt(w, f.type, f.index)
                        IN  ~g.occupied /\ ~g.outOfOrder}
    IN  /\ \A k \in DOMAIN weighted : weighted[k] \in eligible
        /\ weighted = <<>> <=> eligible = {}
        /\ \A f \in Facilities :
              multiplicity(weighted, f) =
                  IF f \in eligible THEN outageWeight(f, w.state.difficulty) ELSE 0

\* C32: in every reachable state, and with its occupancy under no outage
\* or any single outage and a difficulty on either side of 5, the outage
\* target is drawn only among the facilities that are neither occupied nor
\* out of order, none is returned exactly when there is no such facility,
\* and the list holds a urinal 3 times or once by the parity of index + 1
\* and the difficulty, and a cubicle twice
C32_WeightedOutageTarget ==
    LET withOutages(w, d, O) ==
            [w EXCEPT
                !.state.difficulty = d,
                !.urinals = [i \in UrinalIdx |->
                                [@[i] EXCEPT !.outOfOrder =
                                    [type |-> "urinal", index |-> i] \in O]],
                !.cubicles = [i \in CubicleIdx |->
                                [@[i] EXCEPT !.outOfOrder =
                                    [type |-> "cubicle", index |-> i] \in O]]]
    IN
    /\ outageListOk(World)
    /\ \A O \in {{}} \cup {{f} : f \in Facilities} :
       \A d \in {5, 6} : outageListOk(withOutages(World, d, O))

\* the first urinal is occupied while the second urinal and a cubicle are
\* free
C32_Witness ==
    /\ state.status = "playing"
    /\ urinals[0].occupied
    /\ ~urinals[1].occupied
    /\ \E i \in CubicleIdx : ~cubicles[i].occupied

(* ---- C33: idempotence --------------------------------------------------- *)
\* facility g with its two flags set to the given values
withFlags(g, outOfOrder, hasLifeReward) ==
    [g EXCEPT !.outOfOrder = outOfOrder, !.hasLifeReward = hasLifeReward]

\* C33: on the pool of every reachable state, putting a facility out of
\* order twice gives the state that putting it out of order once gives,
\* whether the facility was occupied (and is released by the first call),
\* free or already out of order; and release leaves a facility that is not
\* occupied exactly as it is, whatever its flags, and is idempotent on an
\* occupied one
C33_Idempotence ==
    \A f \in Facilities :
       LET g == facilityAt(World, f.type, f.index)
           once == setFacilityOutOfOrder(World, f.type, f.index)
       IN  /\ setFacilityOutOfOrder(once, f.type, f.index) = once
           /\ facilityAt(once, f.type, f.index).outOfOrder
           /\ release(release(g)) = release(g)
           /\ \A o, r \in BOOLEAN :
                 /\ setOutOfOrder(setOutOfOrder(withFlags(g, o, r), TRUE), TRUE)
                       = setOutOfOrder(withFlags(g, o, r), TRUE)
                 /\ ~g.occupied => release(withFlags(g, o, r)) = withFlags(g, o, r)

\* a urinal and a cubicle are occupied and another urinal is free
C33_Witness ==
    /\ \E i \in UrinalIdx : urinals[i].occupied
    /\ \E i \in UrinalIdx : ~urinals[i].occupied
    /\ \E i \in CubicleIdx : cubicles[i].occupied

(* ---- C34: the order of a tick ------------------------------------------ *)
\* C34: when a waiting male has timed out on the last life and a urinal is
\* due for release in the same update (that of the running loop or, in a
\* paused session, the one resume runs), the update ends the game and settles
\* the high score with the score from before the releases of that update
C34_TimeoutBeforeRelease ==
    (/\ state.status \in {"playing", "paused"}
     /\ state.lives = 1
     /\ expiredMales(World) # {}
     /\ \E i \in UrinalIdx : isReadyForRelease(urinals[i], "urinal"))
    => LET w == IF state.status = "paused" THEN resume(World)
                ELSE update(World, sinceFrame)
           isNew == state.score > storage /\ state.score > 0
       IN  /\ w.state.status = "gameOver"
           /\ w.state.gameOverReason = "timeout"
           /\ w.state.isNewHighScore = isNew
           /\ w.storage = IF isNew THEN state.score ELSE storage

(* ---- C35: the life of a male ------------------------------------------- *)
\* C35: a male never moves back towards waiting; within a session a new
\* male gets an id above every id given before, so the id of a removed male
\* does not come back; a male leaves the Map either waiting and timed out or
\* using a facility that is due; a session starts with male 1
C35_MaleLifeGoesForward ==
    [][LET before == maleSpawner.males
           after == maleSpawner'.males
           stateRank(m) == CASE m.state = "waiting" -> 0
                             [] m.state = "assigned" -> 1
                             [] m.state = "using" -> 2
           heldByDueFacility(id) ==
               \/ \E i \in UrinalIdx : /\ urinals[i].occupiedBy = id
                                       /\ isReadyForRelease(urinals[i], "urinal")
               \/ \E i \in CubicleIdx : /\ cubicles[i].occupiedBy = id
                                        /\ isReadyForRelease(cubicles[i], "cubicle")
       IN  IF StartsSession
           THEN /\ DOMAIN after = {1}
                /\ after[1].state = "waiting"
                /\ maleSpawner'.nextMaleId = 2
           ELSE /\ maleSpawner'.nextMaleId >= maleSpawner.nextMaleId
                /\ DOMAIN before \subseteq 1..(maleSpawner.nextMaleId - 1)
                /\ \A id \in DOMAIN after \ DOMAIN before :
                       /\ id >= maleSpawner.nextMaleId
                       /\ id < maleSpawner'.nextMaleId
                /\ \A id \in DOMAIN before \cap DOMAIN after :
                       stateRank(after[id]) >= stateRank(before[id])
                /\ \A id \in DOMAIN before \ DOMAIN after :
                       \/ hasTimedOut(before[id])
                       \/ before[id].state = "using" /\ heldByDueFacility(id)]_vars

\* a third male waits after the first was released and the second timed out
\* or was released as well, while a male uses a facility
C35_Witness ==
    /\ state.status = "playing"
    /\ maleSpawner.nextMaleId >= 4
    /\ 1 \notin DOMAIN maleSpawner.males
    /\ \E id \in DOMAIN maleSpawner.males : maleSpawner.males[id].state = "using"
    /\ \E id \in DOMAIN maleSpawner.males : maleSpawner.males[id].state = "waiting"
    /\ state.score >= 1

(* ---- C36: facilities and the males using them -------------------------- *)
\* occupied facilities and using males correspond one to one: an occupied
\* facility holds a male of the Map that is using exactly this facility
oneToOne(w) ==
    LET holdsItsMale(f) ==
            LET g == clickedFacility(w, f.type, f.index)
            IN  IF g.occupied
                THEN /\ g.occupiedBy \in DOMAIN w.maleSpawner.males
                     /\ w.maleSpawner.males[g.occupiedBy].state = "using"
                     /\ w.maleSpawner.males[g.occupiedBy].facilityType = f.type
                     /\ w.maleSpawner.males[g.occupiedBy].assignedFacility = f.index
                ELSE g.occupiedBy = NoMale
    IN  /\ \A f \in Facilities : holdsItsMale(f)
        /\ \A id \in DOMAIN w.maleSpawner.males :
               w.maleSpawner.males[id].state = "using" =>
                   Cardinality({f \in Facilities :
                       LET g == clickedFacility(w, f.type, f.index)
                       IN  g.occupied /\ g.occupiedBy = id}) = 1

\* C36: occupied facilities and using males correspond one to one in every
\* reachable state, and still do after a pause, a resume, a return to the
\* menu, a new start, an outage the scheduler adds and a restoration
C36_OccupancyOneToOne ==
    /\ oneToOne(World)
    /\ oneToOne(keyPause(World))
    /\ oneToOne(resume(pause(World)))
    /\ oneToOne(gameTitleClick(World))
    /\ oneToOne(start(gameTitleClick(World)))
    /\ \A f \in Facilities : oneToOne(restoreFacility(World, f.type, f.index))
    /\ \A pick \in 1 .. Max(1, Len(getWeightedOutOfOrderFacility(World))) :
           oneToOne(addRandomOutOfOrderFacility(World, pick, 0))

\* a urinal and a cubicle are in use while a urinal is free and a male waits
C36_Witness ==
    /\ state.status = "playing"
    /\ \E i \in UrinalIdx : urinals[i].occupied
    /\ \E i \in UrinalIdx : ~urinals[i].occupied
    /\ \E i \in CubicleIdx : cubicles[i].occupied
    /\ getMalesInQueue(World) # {}
    /\ state.score >= 1

(* ---- C37: the high score of a session that is over --------------------- *)
\* C37: while the status stays gameOver neither highScore nor
\* isNewHighScore changes, whatever timer fires
C37_GameOverKeepsHighScore ==
    [][(state.status = "gameOver" /\ state'.status = "gameOver")
       => /\ state'.highScore = state.highScore
          /\ state'.isNewHighScore = state.isNewHighScore]_vars

(* ---- C38: patience during a pause -------------------------------------- *)
\* C38: while the session stays paused every waiting male stays in the
\* queue with the time it has left unchanged
C38_PauseFreezesPatience ==
    [][(state.status = "paused" /\ state'.status = "paused")
       => \A id \in getMalesInQueue(World) :
              /\ id \in DOMAIN maleSpawner'.males
              /\ getTimeRemaining(maleSpawner'.males[id])
                     = getTimeRemaining(maleSpawner.males[id])]_vars

(* ---- C39: the high score across sessions ------------------------------- *)
\* C39: highScore never decreases, with or without localStorage, and a
\* session that ends with a score below the high score before it does not
\* set isNewHighScore
C39_HighScoreNeverDecreases ==
    [][/\ state'.highScore >= state.highScore
       /\ (state.status # "gameOver" /\ state'.status = "gameOver"
           /\ state'.isNewHighScore) => state'.score >= state.highScore]_vars

(* ---- C40: every male leaves -------------------------------------------- *)
\* C40: under a fair scheduler every male in the Map leaves it (released
\* after its usage, or timed out while waiting) unless the session stops
\* playing first; the spawner's bound is never what stops a session
C40_EveryMaleLeaves ==
    /\ \A id \in 1 .. LiveMaxMales :
           (id \in DOMAIN maleSpawner.males /\ state.status = "playing")
               ~> (id \notin DOMAIN maleSpawner.males \/ state.status # "playing")
    /\ [](~(state.status = "playing" /\ malesLeft = 0))

\* a session goes on after its first male was released and a later male
\* timed out, with males waiting
C40_Witness ==
    /\ state.status = "playing"
    /\ state.score >= 1
    /\ state.lives < StartLives
    /\ 1 \notin DOMAIN maleSpawner.males
    /\ 3 \notin DOMAIN maleSpawner.males
    /\ getMalesInQueue(World) # {}

====
